---- MODULE Spec2Model ----
(***************************************************************************)
(* Model of app.py: the GeoJSON converter convert_to_geojson and the       *)
(* module-level load block that builds the dashboard's layout.             *)
(*                                                                         *)
(* A Python value is a record [t, s, n, m]: t is the runtime type, s the   *)
(* text of a str (or "nan" for a float NaN), n the number (a float is kept *)
(* in tenths, a date as yyyymmdd, a bool as 0/1) and m the seconds of the  *)
(* day of a Timestamp.                                                     *)
(***************************************************************************)
EXTENDS Integers, Sequences, FiniteSets, TLC

VARIABLES
    mode,              \* "call": convert_to_geojson called by a client; "module": app.py imported
    pc,                \* position in the code
    exc,               \* the exception in flight, "none" when there is none
    csv,               \* the CSV file on disk: [present, frame]
    disk_writable,     \* whether the working directory accepts a new file
    df,                \* module level: the loaded DataFrame
    ultimo_mes,        \* module level: the latest FECHA_PRECIO
    df_ultimo_mes,     \* module level: the rows of the latest date
    geojson_data,      \* module level: the converter's result
    files,             \* paths written on disk
    figs,              \* names of the figures built so far
    scatter_args,      \* the data frame and size list evaluated for px.scatter_mapbox
    fig_mapa_final,    \* module level: the figure chosen for the map tab
    graficos_disponibles,
    stdout,            \* lines printed
    tabs,              \* labels of the tabs, in order
    layout,            \* app.layout: "unset", "tabs" or "error"
    arg_df,            \* convert_to_geojson: parameter df
    lat_col,           \* convert_to_geojson: parameter lat_col
    lon_col,           \* convert_to_geojson: parameter lon_col
    properties_cols,   \* convert_to_geojson: parameter properties_cols
    valid_df,          \* convert_to_geojson: local valid_df
    row_i,             \* convert_to_geojson: position of the iterrows() iterator
    features,          \* convert_to_geojson: local features
    retval,            \* convert_to_geojson: the value returned
    results            \* the client's record of each call's outcome

vars == <<mode, pc, exc, csv, disk_writable, df, ultimo_mes, df_ultimo_mes, geojson_data,
          files, figs, scatter_args, fig_mapa_final, graficos_disponibles, stdout, tabs, layout,
          arg_df, lat_col, lon_col, properties_cols, valid_df, row_i, features,
          retval, results>>

fnVars == <<arg_df, lat_col, lon_col, properties_cols, valid_df, row_i, features, retval>>

moduleVars == <<csv, disk_writable, df, ultimo_mes, df_ultimo_mes, geojson_data, files,
                figs, scatter_args, fig_mapa_final, graficos_disponibles, stdout, tabs, layout>>

(***************************************************************************)
(* Bounds of the model.                                                    *)
(***************************************************************************)
MaxRows == 2

(***************************************************************************)
(* Python values.                                                          *)
(***************************************************************************)
Val(t, s, n, m) == [t |-> t, s |-> s, n |-> n, m |-> m]

PyStrVal(s)   == Val("str", s, 0, 0)
PyInt(n)      == Val("int", "", n, 0)
PyFloatV(n)   == Val("float", "", n, 0)       \* n in tenths
PyNaN         == Val("float", "nan", 0, 0)
PyBool(b)     == Val("bool", "", IF b THEN 1 ELSE 0, 0)
PyNone        == Val("NoneType", "", 0, 0)
NaT           == Val("NaTType", "", 0, 0)
Timestamp(ymd, secs) == Val("Timestamp", "", ymd, secs)
PyDate(ymd)   == Val("date", "", ymd, 0)
NpInt64(n)    == Val("np.int64", "", n, 0)
NpFloat64(v)  == Val("np.float64", v.s, v.n, 0)
NpBool(n)     == Val("np.bool_", "", n, 0)

Range(f) == {f[k] : k \in DOMAIN f}

\* pandas.isna of a scalar, as DataFrame.dropna applies it
IsNA(v) ==
    \/ v.t = "NoneType"
    \/ v.t = "NaTType"
    \/ (v.t \in {"float", "np.float64"} /\ v.s = "nan")

(***************************************************************************)
(* DataFrames: [dtypes : column -> dtype, rows : Seq(column -> cell)].     *)
(***************************************************************************)
Frame(dtypes, rows) == [dtypes |-> dtypes, rows |-> rows]

Columns(d) == DOMAIN d.dtypes

NoFrame == Frame(<<>>, <<>>)

\* A variant of Dropna: how='all', a row is dropped only when every name of subset is missing
DropnaHowAll(d, subset) ==
    Frame(d.dtypes, SelectSeq(d.rows, LAMBDA r : \E c \in subset : ~IsNA(r[c])))

\* df.dropna(subset=[...]) on a frame that has the columns: a new frame, rows in order
Dropna(d, subset) ==
    Frame(d.dtypes, SelectSeq(d.rows, LAMBDA r : \A c \in subset : ~IsNA(r[c])))

\* The dtype of the Series that iterrows() yields for a row: the common dtype
\* of the frame's columns
RowDtype(d) ==
    LET ds == Range(d.dtypes) IN
    IF Cardinality(ds) = 1 THEN CHOOSE x \in ds : TRUE
    ELSE IF ds = {"int64", "float64"} THEN "float64"
    ELSE "object"

\* The scalar that row[col] gives for a cell under the row's dtype
Box(rowdtype, cell) ==
    CASE rowdtype = "float64" ->
            IF cell.t = "int" THEN NpFloat64(PyFloatV(cell.n * 10)) ELSE NpFloat64(cell)
      [] rowdtype = "int64" -> NpInt64(cell.n)
      [] rowdtype = "bool"  -> NpBool(cell.n)
      [] OTHER -> cell

\* The k-th row of iterrows()
IterRow(d, k) == [c \in Columns(d) |-> Box(RowDtype(d), d.rows[k][c])]

(***************************************************************************)
(* Conversions used by convert_to_geojson.                                 *)
(***************************************************************************)
Pad2(n) == IF n < 10 THEN "0" \o ToString(n) ELSE ToString(n)

\* str() of a float kept in tenths: "4.5", "-74.1", "2500.0", "nan"
FloatRepr(v) ==
    IF v.s = "nan" THEN "nan"
    ELSE LET a == IF v.n < 0 THEN 0 - v.n ELSE v.n IN
         (IF v.n < 0 THEN "-" ELSE "") \o ToString(a \div 10) \o "." \o ToString(a % 10)

\* The date of a Timestamp or of a datetime.date as yyyy-mm-dd
DateRepr(v) ==
    ToString(v.n \div 10000) \o "-" \o Pad2((v.n \div 100) % 100) \o "-" \o Pad2(v.n % 100)

\* A variant of TimestampRepr: the date alone
TimestampDateOnly(v) == DateRepr(v)

\* str() of a pandas Timestamp: date, a space, time of day
TimestampRepr(v) ==
    DateRepr(v) \o " " \o Pad2(v.m \div 3600) \o ":" \o Pad2((v.m \div 60) % 60) \o ":" \o Pad2(v.m % 60)

\* str(value)
PyStr(v) ==
    CASE v.t = "Timestamp" -> TimestampRepr(v)
      [] v.t \in {"np.int64", "int"} -> ToString(v.n)
      [] v.t \in {"np.float64", "float"} -> FloatRepr(v)
      [] v.t \in {"np.bool_", "bool"} -> IF v.n = 1 THEN "True" ELSE "False"
      [] v.t = "date" -> DateRepr(v)
      [] v.t = "NoneType" -> "None"
      [] v.t = "NaTType" -> "NaT"
      [] OTHER -> v.s

\* float() of the text of a str: the literals the model's cells hold
ParseFloat(s) ==
    CASE s = "4.5"   -> [exc |-> "none", n |-> 45]
      [] s = "-74.1" -> [exc |-> "none", n |-> 0 - 741]
      [] OTHER       -> [exc |-> "ValueError", n |-> 0]

\* float(value): the float (in tenths) or the exception raised
PyFloat(v) ==
    CASE v.t \in {"float", "np.float64"} -> [exc |-> "none", n |-> v.n]
      [] v.t \in {"int", "np.int64", "bool", "np.bool_"} -> [exc |-> "none", n |-> v.n * 10]
      [] v.t = "str" -> ParseFloat(v.s)
      [] OTHER -> [exc |-> "TypeError", n |-> 0]

\* isinstance(value, (pd.Timestamp, np.integer, np.floating, np.bool_))
IsInstanceConverted(v) == v.t \in {"Timestamp", "np.int64", "np.float64", "np.bool_"}

\* A variant of PropertyValue: every value is stored as its string form
PropertyValueAlwaysStr(v) == PyStrVal(PyStr(v))

\* The value stored under properties[col]
PropertyValue(v) == IF IsInstanceConverted(v) THEN PyStrVal(PyStr(v)) ELSE v

\* The properties dict of a row (every column of cols is in the row)
Properties(row, cols) == [c \in Range(cols) |-> PropertyValue(row[c])]

\* A variant of Coordinates: latitude first
CoordinatesLatFirst(lonf, latf) == <<latf, lonf>>

\* The coordinates list of a Feature
Coordinates(lonf, latf) == <<lonf, latf>>

Feature(row, lat, lon, cols) ==
    [type |-> "Feature",
     geometry |-> [type |-> "Point",
                   coordinates |-> Coordinates(PyFloat(row[lon]).n, PyFloat(row[lat]).n)],
     properties |-> Properties(row, cols)]

\* The exception one pass of the loop body raises for a row, "none" if it
\* appends a Feature: row[col] of an absent column, then float() of the
\* longitude, then float() of the latitude
RowException(row, lat, lon, cols) ==
    IF ~(Range(cols) \subseteq DOMAIN row) THEN "KeyError"
    ELSE IF PyFloat(row[lon]).exc # "none" THEN PyFloat(row[lon]).exc
    ELSE PyFloat(row[lat]).exc

FeatureCollection(fs) == [type |-> "FeatureCollection", features |-> fs]

NoValue == [type |-> "NoValue", features |-> <<>>]

(***************************************************************************)
(* convert_to_geojson(df, lat_col, lon_col, properties_cols).              *)
(***************************************************************************)
\* A variant of EmptyFeatures: the list is created once and shared by every call
SharedFeatures == features

\* features = []
EmptyFeatures == <<>>

\* features = [] and valid_df = df.dropna(subset=[lat_col, lon_col]); dropna
\* raises KeyError when a name of subset is no column
FnEntry ==
    /\ pc = "fn_entry"
    /\ features' = EmptyFeatures
    /\ row_i' = 0
    /\ IF {lat_col, lon_col} \subseteq Columns(arg_df)
       THEN /\ valid_df' = Dropna(arg_df, {lat_col, lon_col})
            /\ pc' = "fn_loop"
            /\ exc' = exc
       ELSE /\ valid_df' = valid_df
            /\ pc' = "raised"
            /\ exc' = "KeyError"
    /\ UNCHANGED <<mode, moduleVars, arg_df, lat_col, lon_col, properties_cols, retval, results>>

\* One pass of the body of for _, row in valid_df.iterrows()
FnLoopRow ==
    /\ pc = "fn_loop"
    /\ row_i < Len(valid_df.rows)
    /\ LET row == IterRow(valid_df, row_i + 1)
           e   == RowException(row, lat_col, lon_col, properties_cols)
       IN IF e = "none"
          THEN /\ features' = Append(features, Feature(row, lat_col, lon_col, properties_cols))
               /\ row_i' = row_i + 1
               /\ UNCHANGED <<pc, exc>>
          ELSE /\ pc' = "raised"
               /\ exc' = e
               /\ UNCHANGED <<features, row_i>>
    /\ UNCHANGED <<mode, moduleVars, arg_df, lat_col, lon_col, properties_cols, valid_df,
                   retval, results>>

\* The loop is exhausted: build the FeatureCollection and return it
FnReturn ==
    /\ pc = "fn_loop"
    /\ row_i = Len(valid_df.rows)
    /\ retval' = FeatureCollection(features)
    /\ pc' = "fn_returned"
    /\ UNCHANGED <<mode, exc, moduleVars, arg_df, lat_col, lon_col, properties_cols,
                   valid_df, row_i, features, results>>

(***************************************************************************)
(* A client of convert_to_geojson: it calls the function NCalls times with *)
(* the same arguments and keeps each call's outcome.                       *)
(***************************************************************************)
NCalls == 2

Outcome(e, v) == [exc |-> e, value |-> v]

AfterCall(n) == IF n < NCalls THEN "call" ELSE "done"

ClientCall ==
    /\ mode = "call"
    /\ pc = "call"
    /\ pc' = "fn_entry"
    /\ UNCHANGED <<mode, exc, moduleVars, fnVars, results>>

ClientReturn ==
    /\ mode = "call"
    /\ pc = "fn_returned"
    /\ results' = Append(results, Outcome("none", retval))
    /\ pc' = AfterCall(Len(results) + 1)
    /\ UNCHANGED <<mode, exc, moduleVars, fnVars>>

ClientCatch ==
    /\ mode = "call"
    /\ pc = "raised"
    /\ results' = Append(results, Outcome(exc, NoValue))
    /\ exc' = "none"
    /\ pc' = AfterCall(Len(results) + 1)
    /\ UNCHANGED <<mode, moduleVars, fnVars>>

(***************************************************************************)
(* The frames and arguments a client calls the converter with.             *)
(***************************************************************************)
SeqsUpTo(S, n) == UNION {[1..k -> S] : k \in 0..n}

\* lat, lon, a text column and an integer column (mixed dtypes)
DtypesA == [lat |-> "float64", lon |-> "float64", city |-> "object", price |-> "int64"]
RowsA == [lat : {PyFloatV(45), PyNaN}, lon : {PyFloatV(0 - 741), PyFloatV(0 - 740)},
          city : {PyStrVal("Bogotá"), PyStrVal("X")}, price : {PyInt(2500), PyInt(2600)}]

\* numeric columns only
DtypesB == [lat |-> "float64", lon |-> "float64", price |-> "int64"]
RowsB == [lat : {PyFloatV(45), PyNaN}, lon : {PyFloatV(0 - 741), PyNaN},
          price : {PyInt(2500), PyInt(2600)}]

\* latitude read as text, a datetime column and a column of Python objects
DtypesC == [lat |-> "object", lon |-> "float64", fecha |-> "datetime64[ns]", extra |-> "object"]
RowsC == [lat : {PyStrVal("4.5"), PyStrVal("abc"), PyNone}, lon : {PyFloatV(0 - 741)},
          fecha : {Timestamp(20250314, 0), NaT},
          extra : {PyDate(20250314), NpInt64(7), NpBool(1)}]

ArgChoices(props) ==
    { <<"lat", "lon", props>>, <<"lat", "lon", <<>> >>, <<"lat", "lon", Append(props, "altitude")>>,
      <<"latitud", "lon", props>>, <<"lat", "longitud", props>> }

CallInputs ==
    ({Frame(DtypesA, rs) : rs \in SeqsUpTo(RowsA, MaxRows)} \X ArgChoices(<<"city", "price">>))
    \cup ({Frame(DtypesB, rs) : rs \in SeqsUpTo(RowsB, MaxRows)} \X ArgChoices(<<"price">>))
    \cup ({Frame(DtypesC, rs) : rs \in SeqsUpTo(RowsC, MaxRows)} \X ArgChoices(<<"fecha", "extra">>))

NoScatterArgs == [data_frame |-> NoFrame, size |-> <<>>]

NoCsv == [present |-> FALSE, frame |-> NoFrame]

InitModuleState ==
    /\ df = NoFrame
    /\ ultimo_mes = NaT
    /\ df_ultimo_mes = NoFrame
    /\ geojson_data = NoValue
    /\ files = {}
    /\ figs = {}
    /\ scatter_args = NoScatterArgs
    /\ fig_mapa_final = "unset"
    /\ graficos_disponibles = "unset"
    /\ stdout = <<>>
    /\ tabs = <<>>
    /\ layout = "unset"

InitFnLocals ==
    /\ valid_df = NoFrame
    /\ row_i = 0
    /\ features = <<>>
    /\ retval = NoValue

InitCall ==
    /\ mode = "call"
    /\ pc = "call"
    /\ exc = "none"
    /\ csv = NoCsv
    /\ disk_writable = TRUE
    /\ InitModuleState
    /\ \E inp \in CallInputs :
          /\ arg_df = inp[1]
          /\ lat_col = inp[2][1]
          /\ lon_col = inp[2][2]
          /\ properties_cols = inp[2][3]
    /\ InitFnLocals
    /\ results = <<>>

(***************************************************************************)
(* The module-level code of app.py: the try block, its handler, the tabs   *)
(* and the layout.                                                         *)
(***************************************************************************)
envVars == <<mode, csv, disk_writable, results>>

uiVars == <<graficos_disponibles, stdout, tabs, layout>>

fecha_col == "FECHA_PRECIO"
precio_col == "PRECIO_PROMEDIO_PUBLICADO"
departamento_col == "DEPARTAMENTO_EDS"
municipio_col == "MUNICIPIO_EDS"
latitud_col == "LATITUD_MUNICIPIO"
longitud_col == "LONGITUD_MUNICIPIO"
geojson_path == "municipios_precios.geojson"

\* size=[10] * len(...): the size given to every point
PointSize == 10

\* pd.read_csv(csv_path): FileNotFoundError when the file is absent
ReadCsv ==
    /\ mode = "module"
    /\ pc = "read_csv"
    /\ IF csv.present
       THEN df' = csv.frame /\ pc' = "to_datetime" /\ exc' = exc
       ELSE df' = df /\ pc' = "raised" /\ exc' = "FileNotFoundError"
    /\ UNCHANGED <<envVars, uiVars, fnVars, ultimo_mes, df_ultimo_mes, geojson_data, files,
                   figs, scatter_args, fig_mapa_final>>

\* pd.to_datetime of the text of a date: the texts the model's cells hold
ParseDate(s) ==
    CASE s = "2025-02-14" -> Timestamp(20250214, 0)
      [] s = "2025-03-14" -> Timestamp(20250314, 0)
      [] OTHER            -> NaT

Parseable(v) == v.t = "str" /\ ParseDate(v.s) # NaT

\* The frame with FECHA_PRECIO parsed and the columns ANIO and MES added
WithDates(d) ==
    Frame([c \in Columns(d) \cup {"ANIO", "MES"} |->
              IF c = fecha_col THEN "datetime64[ns]"
              ELSE IF c \in {"ANIO", "MES"} THEN "int32"
              ELSE d.dtypes[c]],
          [k \in DOMAIN d.rows |->
              LET ts == ParseDate(d.rows[k][fecha_col].s) IN
              [c \in Columns(d) \cup {"ANIO", "MES"} |->
                  IF c = fecha_col THEN ts
                  ELSE IF c = "ANIO" THEN PyInt(ts.n \div 10000)
                  ELSE IF c = "MES" THEN PyInt((ts.n \div 100) % 100)
                  ELSE d.rows[k][c]]])

\* df[fecha_col] = pd.to_datetime(df[fecha_col]) and the columns ANIO, MES
ToDatetime ==
    /\ mode = "module"
    /\ pc = "to_datetime"
    /\ IF \A k \in DOMAIN df.rows : Parseable(df.rows[k][fecha_col])
       THEN df' = WithDates(df) /\ pc' = "charts" /\ exc' = exc
       ELSE df' = df /\ pc' = "raised" /\ exc' = "ValueError"
    /\ UNCHANGED <<envVars, uiVars, fnVars, ultimo_mes, df_ultimo_mes, geojson_data, files,
                   figs, scatter_args, fig_mapa_final>>

StatFigs == {"fig_hist", "fig_box", "fig_line", "fig_trend", "fig_anual_mes", "fig_bar",
             "fig_top_municipios", "fig_corr"}

\* The eight statistical figures; a call into the plotting library may raise
BuildCharts ==
    /\ mode = "module"
    /\ pc = "charts"
    /\ \/ figs' = figs \cup StatFigs /\ pc' = "slice" /\ exc' = exc
       \/ figs' = figs /\ pc' = "raised" /\ exc' = "Exception"
    /\ UNCHANGED <<envVars, uiVars, fnVars, df, ultimo_mes, df_ultimo_mes, geojson_data, files,
                   scatter_args, fig_mapa_final>>

\* df[fecha_col].max(): NaT for a frame without rows
MaxFecha(d) ==
    IF d.rows = <<>> THEN NaT
    ELSE LET ds == {d.rows[k][fecha_col] : k \in DOMAIN d.rows} IN
         CHOOSE x \in ds : \A y \in ds : y.n <= x.n

\* df[df[fecha_col] == ultimo_mes]
RowsOfDate(d, ts) == Frame(d.dtypes, SelectSeq(d.rows, LAMBDA r : r[fecha_col] = ts))

SliceUltimoMes ==
    /\ mode = "module"
    /\ pc = "slice"
    /\ ultimo_mes' = MaxFecha(df)
    /\ df_ultimo_mes' = RowsOfDate(df, MaxFecha(df))
    /\ pc' = "convert"
    /\ UNCHANGED <<envVars, uiVars, fnVars, exc, df, geojson_data, files, figs, scatter_args,
                   fig_mapa_final>>

propiedades == <<municipio_col, departamento_col, precio_col>>

\* The call convert_to_geojson(df_ultimo_mes, 'LATITUD_MUNICIPIO', 'LONGITUD_MUNICIPIO', propiedades)
ModuleCallConvert ==
    /\ mode = "module"
    /\ pc = "convert"
    /\ arg_df' = df_ultimo_mes
    /\ lat_col' = latitud_col
    /\ lon_col' = longitud_col
    /\ properties_cols' = propiedades
    /\ pc' = "fn_entry"
    /\ UNCHANGED <<envVars, uiVars, exc, df, ultimo_mes, df_ultimo_mes, geojson_data, files,
                   figs, scatter_args, fig_mapa_final, valid_df, row_i, features, retval>>

\* geojson_data = <the value returned>
ModuleAssignGeojson ==
    /\ mode = "module"
    /\ pc = "fn_returned"
    /\ geojson_data' = retval
    /\ pc' = "write"
    /\ UNCHANGED <<envVars, uiVars, fnVars, exc, df, ultimo_mes, df_ultimo_mes, files, figs,
                   scatter_args, fig_mapa_final>>

\* What json.dump accepts as a value
JsonDumpable(v) == v.t \in {"str", "int", "float", "bool", "NoneType", "np.float64"}

DumpRaises(fc) ==
    \E k \in DOMAIN fc.features :
        \E c \in DOMAIN fc.features[k].properties : ~JsonDumpable(fc.features[k].properties[c])

\* with open(geojson_path, 'w') as f: json.dump(geojson_data, f)
WriteGeojson ==
    /\ mode = "module"
    /\ pc = "write"
    /\ IF ~disk_writable
       THEN files' = files /\ pc' = "raised" /\ exc' = "OSError"
       ELSE /\ files' = files \cup {geojson_path}
            /\ IF DumpRaises(geojson_data)
               THEN pc' = "raised" /\ exc' = "TypeError"
               ELSE pc' = "choropleth" /\ exc' = exc
    /\ UNCHANGED <<envVars, uiVars, fnVars, df, ultimo_mes, df_ultimo_mes, geojson_data, figs,
                   scatter_args, fig_mapa_final>>

\* px.choropleth_mapbox(...): its title calls ultimo_mes.strftime, which raises on NaT
BuildChoropleth ==
    /\ mode = "module"
    /\ pc = "choropleth"
    /\ IF ultimo_mes = NaT
       THEN figs' = figs /\ pc' = "raised" /\ exc' = "ValueError"
       ELSE figs' = figs \cup {"fig_mapa"} /\ pc' = "scatter_args" /\ exc' = exc
    /\ UNCHANGED <<envVars, uiVars, fnVars, df, ultimo_mes, df_ultimo_mes, geojson_data, files,
                   scatter_args, fig_mapa_final>>

\* [10] * len(frame)
SizeList(d) == [k \in 1..Len(d.rows) |-> PointSize]

\* The arguments of px.scatter_mapbox: the rows with both coordinates, and size
ScatterArgs(d) ==
    [data_frame |-> Dropna(d, {latitud_col, longitud_col}), size |-> SizeList(d)]

EvalScatterArgs ==
    /\ mode = "module"
    /\ pc = "scatter_args"
    /\ scatter_args' = ScatterArgs(df_ultimo_mes)
    /\ pc' = "scatter"
    /\ UNCHANGED <<envVars, uiVars, fnVars, exc, df, ultimo_mes, df_ultimo_mes, geojson_data,
                   files, figs, fig_mapa_final>>

\* px.scatter_mapbox(...): raises ValueError when a list argument's length is
\* not the length of the data frame
BuildScatter ==
    /\ mode = "module"
    /\ pc = "scatter"
    /\ IF Len(scatter_args.size) # Len(scatter_args.data_frame.rows)
       THEN figs' = figs /\ pc' = "raised" /\ exc' = "ValueError"
       ELSE figs' = figs \cup {"fig_mapa_scatter"} /\ pc' = "select" /\ exc' = exc
    /\ UNCHANGED <<envVars, uiVars, fnVars, df, ultimo_mes, df_ultimo_mes, geojson_data, files,
                   scatter_args, fig_mapa_final>>

\* fig_mapa_final = fig_mapa_scatter; graficos_disponibles = True
SelectMap ==
    /\ mode = "module"
    /\ pc = "select"
    /\ fig_mapa_final' = "fig_mapa_scatter"
    /\ graficos_disponibles' = "True"
    /\ pc' = "tabs"
    /\ UNCHANGED <<envVars, fnVars, exc, df, ultimo_mes, df_ultimo_mes, geojson_data, files,
                   figs, scatter_args, stdout, tabs, layout>>

\* A variant of HandlerFlag: the handler leaves the charts marked available
HandlerFlagAvailable == "True"

\* The value the handler gives graficos_disponibles
HandlerFlag == "False"

\* except Exception as e: print(...); graficos_disponibles = False
Except ==
    /\ mode = "module"
    /\ pc = "raised"
    /\ stdout' = Append(stdout, "Error al cargar datos o crear graficos: " \o exc)
    /\ graficos_disponibles' = HandlerFlag
    /\ exc' = "none"
    /\ pc' = "tabs"
    /\ UNCHANGED <<envVars, fnVars, df, ultimo_mes, df_ultimo_mes, geojson_data, files, figs,
                   scatter_args, fig_mapa_final, tabs, layout>>

MapTab == "Mapa de Precios"

StatTabs == <<"Histograma", "Boxplot por Departamento", "Evolucion por Departamento",
              "Tendencia Global", "Tendencia Anio/Mes", "Barras por Departamento",
              "Top 10 Municipios", "Matriz de Correlacion">>

\* tabs = []; the map tab, then the statistical tabs, each under if graficos_disponibles
TabsFor(flag) ==
    (IF flag = "True" THEN <<MapTab>> ELSE <<>>) \o (IF flag = "True" THEN StatTabs ELSE <<>>)

BuildTabs ==
    /\ mode = "module"
    /\ pc = "tabs"
    /\ tabs' = TabsFor(graficos_disponibles)
    /\ pc' = "layout"
    /\ UNCHANGED <<envVars, fnVars, exc, df, ultimo_mes, df_ultimo_mes, geojson_data, files,
                   figs, scatter_args, fig_mapa_final, graficos_disponibles, stdout, layout>>

\* if len(tabs) > 0: the tabbed layout, else the error screen
LayoutFor(ts) == IF Len(ts) > 0 THEN "tabs" ELSE "error"

SetLayout ==
    /\ mode = "module"
    /\ pc = "layout"
    /\ layout' = LayoutFor(tabs)
    /\ pc' = "done"
    /\ UNCHANGED <<envVars, fnVars, exc, df, ultimo_mes, df_ultimo_mes, geojson_data, files,
                   figs, scatter_args, fig_mapa_final, graficos_disponibles, stdout, tabs>>

(***************************************************************************)
(* The CSV files the module may find on disk.                              *)
(***************************************************************************)
DtypesCsv ==
    [FECHA_PRECIO |-> "object", PRECIO_PROMEDIO_PUBLICADO |-> "float64",
     DEPARTAMENTO_EDS |-> "object", MUNICIPIO_EDS |-> "object",
     LATITUD_MUNICIPIO |-> "float64", LONGITUD_MUNICIPIO |-> "float64"]

RowsCsv ==
    [FECHA_PRECIO : {PyStrVal("2025-02-14"), PyStrVal("2025-03-14"), PyStrVal("sin fecha")},
     PRECIO_PROMEDIO_PUBLICADO : {PyFloatV(25000)},
     DEPARTAMENTO_EDS : {PyStrVal("CUNDINAMARCA")},
     MUNICIPIO_EDS : {PyStrVal("BOGOTA")},
     LATITUD_MUNICIPIO : {PyFloatV(45), PyNaN},
     LONGITUD_MUNICIPIO : {PyFloatV(0 - 741), PyNaN}]

\* A file without the latitude column
DtypesCsvNoLat ==
    [FECHA_PRECIO |-> "object", PRECIO_PROMEDIO_PUBLICADO |-> "float64",
     DEPARTAMENTO_EDS |-> "object", MUNICIPIO_EDS |-> "object",
     LONGITUD_MUNICIPIO |-> "float64"]

RowsCsvNoLat ==
    [FECHA_PRECIO : {PyStrVal("2025-03-14")},
     PRECIO_PROMEDIO_PUBLICADO : {PyFloatV(25000)},
     DEPARTAMENTO_EDS : {PyStrVal("CUNDINAMARCA")},
     MUNICIPIO_EDS : {PyStrVal("BOGOTA")},
     LONGITUD_MUNICIPIO : {PyFloatV(0 - 741)}]

CsvFiles ==
    {NoCsv}
    \cup {[present |-> TRUE, frame |-> Frame(DtypesCsv, rs)] : rs \in SeqsUpTo(RowsCsv, MaxRows)}
    \cup {[present |-> TRUE, frame |-> Frame(DtypesCsvNoLat, rs)] :
             rs \in SeqsUpTo(RowsCsvNoLat, MaxRows)}

InitModule ==
    /\ mode = "module"
    /\ pc = "read_csv"
    /\ exc = "none"
    /\ csv \in CsvFiles
    /\ disk_writable \in BOOLEAN
    /\ InitModuleState
    /\ arg_df = NoFrame
    /\ lat_col = ""
    /\ lon_col = ""
    /\ properties_cols = <<>>
    /\ InitFnLocals
    /\ results = <<>>

Init == InitCall \/ InitModule

Next ==
    \/ FnEntry
    \/ FnLoopRow
    \/ FnReturn
    \/ ClientCall
    \/ ClientReturn
    \/ ClientCatch
    \/ ReadCsv
    \/ ToDatetime
    \/ BuildCharts
    \/ SliceUltimoMes
    \/ ModuleCallConvert
    \/ ModuleAssignGeojson
    \/ WriteGeojson
    \/ BuildChoropleth
    \/ EvalScatterArgs
    \/ BuildScatter
    \/ SelectMap
    \/ Except
    \/ BuildTabs
    \/ SetLayout

Spec == Init /\ [][Next]_vars

(***************************************************************************)
(* Properties of convert_to_geojson.                                       *)
(***************************************************************************)
\* The rows of the call's frame that have both coordinates, in order
Surviving == SelectSeq(arg_df.rows, LAMBDA r : ~IsNA(r[lat_col]) /\ ~IsNA(r[lon_col]))

MissingRows == {k \in DOMAIN arg_df.rows : IsNA(arg_df.rows[k][lat_col]) \/ IsNA(arg_df.rows[k][lon_col])}

\* The number (in tenths) a coordinate cell stands for
NumberOf(cell) == IF cell.t = "str" THEN ParseFloat(cell.s).n ELSE cell.n

\* C1: a call that returns emits one Feature per row with both coordinates and
\* none for a row with a missing latitude or longitude: the number of features
\* is at most the number of rows, and equal to it iff no row has a missing
\* coordinate.
C1_FeatureCount ==
    pc = "fn_returned" =>
        /\ Len(retval.features) = Len(arg_df.rows) - Cardinality(MissingRows)
        /\ Len(retval.features) <= Len(arg_df.rows)
        /\ (Len(retval.features) = Len(arg_df.rows)) <=> (MissingRows = {})

C1_Witness ==
    /\ pc = "fn_returned"
    /\ mode = "call"
    /\ MissingRows # {}
    /\ Len(retval.features) = 1
    /\ Len(arg_df.rows) = 2

\* C2: the k-th Feature returned is built from the k-th row that has both
\* coordinates, and its geometry is a Point with coordinates [longitude,
\* latitude] of that row.
C2_OrderAndCoordinates ==
    pc = "fn_returned" =>
        /\ Len(retval.features) = Len(Surviving)
        /\ \A k \in DOMAIN retval.features :
              /\ retval.features[k].type = "Feature"
              /\ retval.features[k].geometry.type = "Point"
              /\ retval.features[k].geometry.coordinates =
                     <<NumberOf(Surviving[k][lon_col]), NumberOf(Surviving[k][lat_col])>>
              /\ \A c \in Range(properties_cols) :
                     retval.features[k].properties[c] =
                         PropertyValue(Box(RowDtype(arg_df), Surviving[k][c]))

\* The first row is dropped and the second yields the only Feature
C2_Witness ==
    /\ pc = "fn_returned"
    /\ mode = "call"
    /\ Len(arg_df.rows) = 2
    /\ 1 \in MissingRows
    /\ Len(retval.features) = 1
    /\ retval.features[1].geometry.coordinates[1] # retval.features[1].geometry.coordinates[2]
    /\ properties_cols # <<>>

NamesAreColumns == ({lat_col, lon_col} \cup Range(properties_cols)) \subseteq Columns(arg_df)

JsonTypes == {"str", "int", "float", "bool", "NoneType"}

\* C3: every value stored under properties in every Feature returned is a
\* string, number, boolean or null; a value of a type the normalization does
\* not handle is stored as a string too.
C3_PropertiesAreJsonTypes ==
    pc = "fn_returned" =>
        \A k \in DOMAIN retval.features :
            \A c \in DOMAIN retval.features[k].properties :
                retval.features[k].properties[c].t \in JsonTypes

\* C4: when lat_col, lon_col or a name of properties_cols is no column of the
\* frame, the call fails with a schema error raised up front, for every row
\* set: such a call never returns a FeatureCollection.
C4_SchemaErrorUpFront == pc = "fn_returned" => NamesAreColumns

\* C5: a coordinate that is present but not convertible to a number drops its
\* row only: a call whose column names all exist returns a FeatureCollection
\* and never raises.
C5_MalformedCoordinateDropsRow ==
    (mode = "call" /\ NamesAreColumns) => pc # "raised"

ScenarioFrame ==
    Frame(DtypesA,
          << [lat |-> PyFloatV(45), lon |-> PyFloatV(0 - 741),
              city |-> PyStrVal("Bogotá"), price |-> PyInt(2500)],
             [lat |-> PyNaN, lon |-> PyFloatV(0 - 740),
              city |-> PyStrVal("X"), price |-> PyInt(2600)] >>)

ScenarioCall ==
    /\ arg_df = ScenarioFrame
    /\ lat_col = "lat"
    /\ lon_col = "lon"
    /\ properties_cols = <<"city", "price">>

ScenarioResult ==
    FeatureCollection(
        << [type |-> "Feature",
            geometry |-> [type |-> "Point", coordinates |-> <<0 - 741, 45>>],
            properties |-> [city |-> PyStrVal("Bogotá"), price |-> PyInt(2500)]] >>)

\* C6 as stated: the properties of a Feature have exactly the keys of
\* properties_cols and carry the row's string and numeric values unchanged, a
\* number staying a number.
C6_NumericValuesUnchanged ==
    pc = "fn_returned" =>
        \A k \in DOMAIN retval.features :
            /\ DOMAIN retval.features[k].properties = Range(properties_cols)
            /\ \A c \in Range(properties_cols) :
                  Surviving[k][c].t \in {"str", "int", "float"} =>
                      retval.features[k].properties[c] = Surviving[k][c]

\* C6 amended: the properties of a Feature have exactly the keys of
\* properties_cols; a value the row holds as a Python str, int or float is
\* carried unchanged, which is every string and number of a frame whose columns
\* have mixed dtypes; in a frame of numeric columns only, the row holds numpy
\* scalars and each number is stored as its string form. The scenario's call
\* returns exactly one Feature, coordinates [-74.1, 4.5], properties
\* {city: "Bogotá", price: 2500}.
C6_NativeValuesUnchanged ==
    pc = "fn_returned" =>
        /\ \A k \in DOMAIN retval.features :
              /\ DOMAIN retval.features[k].properties = Range(properties_cols)
              /\ \A c \in Range(properties_cols) :
                    LET cell == Surviving[k][c]
                        v    == Box(RowDtype(arg_df), cell)
                        p    == retval.features[k].properties[c]
                    IN /\ v.t \in {"str", "int", "float"} => p = v
                       /\ (RowDtype(arg_df) = "object" /\ cell.t \in {"str", "int", "float"})
                              => p = cell
                       /\ (RowDtype(arg_df) # "object" /\ cell.t \in {"int", "float"})
                              => p.t = "str"
        /\ ScenarioCall => retval = ScenarioResult

C6_Witness == pc = "fn_returned" /\ ScenarioCall /\ Len(retval.features) = 1

\* C7 as stated: a property value that is the date 2025-03-14 is stored as
\* exactly the string "2025-03-14".
C7_DateOnlyString ==
    pc = "fn_returned" =>
        \A k \in DOMAIN retval.features :
            \A c \in Range(properties_cols) :
                Surviving[k][c] \in {Timestamp(20250314, 0), PyDate(20250314)} =>
                    retval.features[k].properties[c] = PyStrVal("2025-03-14")

\* C7 amended: a property value that is the pandas Timestamp 2025-03-14
\* (midnight) is stored as exactly the string "2025-03-14 00:00:00", the date
\* followed by the time of day, and not as a structured date value.
C7_TimestampString ==
    pc = "fn_returned" =>
        \A k \in DOMAIN retval.features :
            \A c \in Range(properties_cols) :
                Surviving[k][c] = Timestamp(20250314, 0) =>
                    retval.features[k].properties[c] = PyStrVal("2025-03-14 00:00:00")

C7_Witness ==
    /\ pc = "fn_returned"
    /\ mode = "call"
    /\ "fecha" \in Range(properties_cols)
    /\ Len(retval.features) >= 1
    /\ Surviving[1]["fecha"] = Timestamp(20250314, 0)

ArgsAndFilesKept ==
    /\ arg_df' = arg_df
    /\ lat_col' = lat_col
    /\ lon_col' = lon_col
    /\ properties_cols' = properties_cols
    /\ files' = files

CallKeepsArgsAndFiles == (pc \in {"fn_entry", "fn_loop"}) => ArgsAndFilesKept

\* C8: convert_to_geojson is pure and idempotent: while a call runs, the frame
\* and the other arguments stay as they were and no file is written, and every
\* call a client makes with the same arguments has the same outcome.
C8_PureIdempotent ==
    /\ [][CallKeepsArgsAndFiles]_vars
    /\ [](\A j, k \in DOMAIN results : results[j] = results[k])

\* Two calls have returned a Feature each from a frame with a dropped row
C8_Witness ==
    /\ mode = "call"
    /\ pc = "done"
    /\ Len(results) >= 2
    /\ results[1].exc = "none"
    /\ Len(results[1].value.features) = 1
    /\ Len(arg_df.rows) = 2
    /\ files = {}

(***************************************************************************)
(* Properties of the module-level code.                                    *)
(***************************************************************************)
\* C9: the module ends in exactly one of two layouts: after an exception in
\* any step of the try block (the handler has printed its line) the flag is
\* False, there is no tab and the layout is the error screen; otherwise the
\* flag is True and the layout holds the nine tabs, the price map first.
C9_TwoLayouts ==
    (mode = "module" /\ pc = "done") =>
        /\ exc = "none"
        /\ IF stdout # <<>>
           THEN /\ graficos_disponibles = "False"
                /\ tabs = <<>>
                /\ layout = "error"
           ELSE /\ graficos_disponibles = "True"
                /\ Len(tabs) = 9
                /\ tabs[1] = MapTab
                /\ fig_mapa_final = "fig_mapa_scatter"
                /\ StatFigs \subseteq figs
                /\ layout = "tabs"

\* The file was written and the figures built, then a map step raised
C9_Witness ==
    /\ mode = "module"
    /\ pc = "done"
    /\ layout = "error"
    /\ geojson_path \in files
    /\ "fig_mapa" \in figs

\* C10: the size list given to the backup scatter map is as long as the row
\* set it plots, also when the latest date has a row with a missing coordinate.
C10_SizeMatchesRows ==
    pc = "scatter" => Len(scatter_args.size) = Len(scatter_args.data_frame.rows)

====
